---- MODULE Spec2Model ----
(***************************************************************************)
(* The lichess PGN importer (index-pgn/src/bin/index-lichess.rs): a        *)
(* producer (main thread) drives a PGN reader over each file, the Importer *)
(* visitor builds one Game per game, decides accept/reject at the end of   *)
(* the headers, collects accepted games into batches and sends them over a *)
(* bounded channel to a background thread that uploads them one by one.    *)
(*                                                                         *)
(* Byte strings are sequences of atoms, one character each (a longer piece *)
(* of text that is only ever compared as a whole is one atom); Option<T>   *)
(* is the empty sequence (None) or a one-element sequence (Some(x)).       *)
(***************************************************************************)
EXTENDS Integers, Sequences, FiniteSets, TLC

\* ------------------------------------------------------------------ bounds
\* Number of games read in one run, over all files.
MaxGames == 2
\* Number of files on the command line.
MaxFiles == 2
\* Largest --batch-size tried (0 .. MaxBatchSize).
MaxBatchSize == 2
\* Capacity of the bounded channel (50 in the program, scaled down so that
\* the channel fills).
QueueCap == 1
\* Largest number of headers of one game in the header-rich catalogue.
MaxHeaders == 3

\* ------------------------------------------------------- program constants
U16Max == 65535
MinRating == 1501

\* ---------------------------------------------------------------- options
None == <<>>
Some(x) == <<x>>
IsSome(o) == o # <<>>
UnwrapOr(o, d) == IF o = <<>> THEN d ELSE o[1]

\* ------------------------------------------------------------ byte strings
Digits == {"0", "1", "2", "3", "4", "5", "6", "7", "8", "9"}
DigitVal(c) ==
  CASE c = "0" -> 0 [] c = "1" -> 1 [] c = "2" -> 2 [] c = "3" -> 3
    [] c = "4" -> 4 [] c = "5" -> 5 [] c = "6" -> 6 [] c = "7" -> 7
    [] c = "8" -> 8 [] c = "9" -> 9

\* A byte that is not valid UTF-8 on its own.
BadByte == "\\xFF"

\* decode_utf8 / String::from_utf8 succeed iff no invalid byte occurs.
Utf8Ok(bytes) == \A i \in 1..Len(bytes) : bytes[i] # BadByte

\* Index of the first / last occurrence of ch in bytes, 0 when absent.
FirstIndex(bytes, ch) ==
  IF \E i \in 1..Len(bytes) : bytes[i] = ch
    THEN CHOOSE i \in 1..Len(bytes) :
           bytes[i] = ch /\ \A j \in 1..(i - 1) : bytes[j] # ch
    ELSE 0
LastIndex(bytes, ch) ==
  IF \E i \in 1..Len(bytes) : bytes[i] = ch
    THEN CHOOSE i \in 1..Len(bytes) :
           bytes[i] = ch /\ \A j \in (i + 1)..Len(bytes) : bytes[j] # ch
    ELSE 0

\* Results of fallible calls: [ok |-> TRUE, val |-> v] or [ok |-> FALSE].
Ok(v) == [ok |-> TRUE, val |-> v]
Err == [ok |-> FALSE, val |-> 0]

\* Value of a digit string, most significant digit first, saturating just
\* above limit (the checked multiplication and addition of btoi fail there).
RECURSIVE DigitsValue(_, _, _)
DigitsValue(bytes, acc, limit) ==
  IF bytes = <<>> THEN acc
  ELSE IF acc > limit THEN acc
  ELSE DigitsValue(Tail(bytes), acc * 10 + DigitVal(Head(bytes)), limit)

\* btoi::btou: unsigned decimal, no sign, at least one digit, no overflow.
Btou(bytes, limit) ==
  IF bytes = <<>> THEN Err
  ELSE IF \E i \in 1..Len(bytes) : bytes[i] \notin Digits THEN Err
  ELSE LET v == DigitsValue(bytes, 0, limit)
       IN IF v > limit THEN Err ELSE Ok(v)

\* btoi::btoi into u16: optional sign, at least one digit, no overflow; a
\* negative number other than zero underflows an unsigned target.
BtoiU16(bytes) ==
  IF bytes = <<>> THEN Err
  ELSE LET signed == Head(bytes) \in {"+", "-"}
           digits == IF signed THEN Tail(bytes) ELSE bytes
           r == Btou(digits, U16Max)
       IN IF ~r.ok THEN Err
          ELSE IF signed /\ Head(bytes) = "-" /\ r.val # 0 THEN Err
          ELSE r

\* --------------------------------------------------------------------- u64
\* A u64, and the exact value of seconds + 40 * increment, do not fit the
\* integers of the checker: a number below 10^21 is kept as three limbs of
\* seven decimal digits, <<high, middle, low>>.
LimbBase == 10000000
U64Max == <<184467, 4407370, 9551615>>
TwoTo64 == <<184467, 4407370, 9551616>>

\* The digit at place i of a decimal spelling, 0 where it has none.
DigitAt(bytes, i) ==
  IF i >= 1 /\ i <= Len(bytes) THEN DigitVal(bytes[i]) ELSE 0

\* The seven digits that end at place last, as a number.
LimbEndingAt(bytes, last) ==
  DigitAt(bytes, last - 6) * 1000000 + DigitAt(bytes, last - 5) * 100000
    + DigitAt(bytes, last - 4) * 10000 + DigitAt(bytes, last - 3) * 1000
    + DigitAt(bytes, last - 2) * 100 + DigitAt(bytes, last - 1) * 10
    + DigitAt(bytes, last)

\* The last 21 digits of a decimal spelling as limbs.
Limbs(bytes) ==
  <<LimbEndingAt(bytes, Len(bytes) - 14), LimbEndingAt(bytes, Len(bytes) - 7),
    LimbEndingAt(bytes, Len(bytes))>>

LimbsLess(a, b) ==
  \/ a[1] < b[1]
  \/ a[1] = b[1] /\ a[2] < b[2]
  \/ a[1] = b[1] /\ a[2] = b[2] /\ a[3] < b[3]

\* Carries brought forward.
Normalise(high, middle, low) ==
  <<high + (middle + low \div LimbBase) \div LimbBase,
    (middle + low \div LimbBase) % LimbBase,
    low % LimbBase>>

\* The exact sum, and the exact product by a small factor.
LimbsAdd(a, b) == Normalise(a[1] + b[1], a[2] + b[2], a[3] + b[3])
LimbsTimes(k, a) == Normalise(k * a[1], k * a[2], k * a[3])

\* a - b for a >= b.
LimbsSub(a, b) ==
  LET low == a[3] - b[3]
      middle == a[2] - b[2] - (IF low < 0 THEN 1 ELSE 0)
      high == a[1] - b[1] - (IF middle < 0 THEN 1 ELSE 0)
  IN <<high, (middle + LimbBase) % LimbBase, (low + LimbBase) % LimbBase>>

\* The value a u64 computation leaves when it wraps: n modulo 2^64, for n
\* below 42 * 2^64.
WrapU64(n) ==
  CHOOSE r \in {LimbsSub(n, LimbsTimes(k, TwoTo64)) : k \in 0..41} :
    ~LimbsLess(r, <<0, 0, 0>>) /\ ~LimbsLess(U64Max, r)

\* The number as an integer when it is below LimbBase, and LimbBase
\* otherwise.
LimbsSmall(n) == IF n[1] = 0 /\ n[2] = 0 THEN n[3] ELSE LimbBase

\* btoi::btou into u64: unsigned decimal, no sign, at least one digit, no
\* overflow of the type.
BtouU64(bytes) ==
  IF bytes = <<>> THEN Err
  ELSE IF \E i \in 1..Len(bytes) : bytes[i] \notin Digits THEN Err
  ELSE IF \E i \in 1..(Len(bytes) - 20) : bytes[i] # "0" THEN Err
  ELSE IF LimbsLess(U64Max, Limbs(bytes)) THEN Err
  ELSE Ok(Limbs(bytes))

\* ------------------------------------------------------------------- Speed
\* seconds + 40 * increment leaves the u64.
TotalOverflows(seconds, increment) ==
  LimbsLess(U64Max, LimbsAdd(seconds, LimbsTimes(40, increment)))

\* Speed::from_seconds_and_increment on two u64, the total wrapping (a build
\* without overflow checks) when it leaves the type.
SpeedOfTotal(total) ==
  IF total < 30 THEN "ultraBullet"
  ELSE IF total < 180 THEN "bullet"
  ELSE IF total < 480 THEN "blitz"
  ELSE IF total < 1500 THEN "rapid"
  ELSE IF total < 21600 THEN "classical"
  ELSE "correspondence"

SpeedFromSecondsAndIncrement(seconds, increment) ==
  CHOOSE speed \in
    {SpeedOfTotal(LimbsSmall(total)) :
       total \in {WrapU64(LimbsAdd(seconds, LimbsTimes(40, increment)))}} : TRUE

\* The two numbers of a time control "seconds+increment", when both parse.
ClockParts(bytes) ==
  LET plus == FirstIndex(bytes, "+")
  IN IF plus = 0 THEN Err
     ELSE LET seconds == BtouU64(SubSeq(bytes, 1, plus - 1))
              increment == BtouU64(SubSeq(bytes, plus + 1, Len(bytes)))
          IN IF seconds.ok /\ increment.ok
               THEN Ok([seconds |-> seconds.val, increment |-> increment.val])
               ELSE Err

SpeedFromBytes(bytes) ==
  IF bytes = <<"-">> THEN Ok("correspondence")
  ELSE CHOOSE speed \in
         {IF parts.ok
            THEN Ok(SpeedFromSecondsAndIncrement(parts.val.seconds,
                                                parts.val.increment))
            ELSE Err : parts \in {ClockParts(bytes)}} : TRUE

\* A build with overflow checks panics in from_seconds_and_increment when the
\* total leaves the u64.
TimeControlOverflows(bytes) ==
  /\ bytes # <<"-">>
  /\ \E parts \in {ClockParts(bytes)} :
       /\ parts.ok
       /\ TotalOverflows(parts.val.seconds, parts.val.increment)

\* ----------------------------------------------------------------- Outcome
\* pgn_reader's Outcome::from_ascii followed by Outcome::winner.
OutcomeFromAscii(bytes) ==
  IF bytes = <<"1", "-", "0">> THEN Ok(Some("white"))
  ELSE IF bytes = <<"0", "-", "1">> THEN Ok(Some("black"))
  ELSE IF bytes = <<"1", "/", "2", "-", "1", "/", "2">> THEN Ok(None)
  ELSE Err

\* -------------------------------------------------------------------- Game
DefaultPlayer == [name |-> None, rating |-> None]
DefaultGame ==
  [variant |-> None, speed |-> None, fen |-> None, id |-> None, date |-> None,
   white |-> DefaultPlayer, black |-> DefaultPlayer, winner |-> None,
   moves |-> <<>>]

\* The value of the FEN header naming the standard starting position.
StartFen == <<"rnbqkbnr/pppppppp/8/8/8/8/PPPPPPPP/RNBQKBNR w KQkq - 0 1">>

\* Outcome of a visitor callback that may panic (an expect on an Err).
Done(cur, skp) == [panic |-> FALSE, current |-> cur, skip |-> skp]
Panic(cur, skp) == [panic |-> TRUE, current |-> cur, skip |-> skp]

\* Importer::header, one branch per key.
HeaderName(cur, skp, side, value) ==
  IF Utf8Ok(value)
    THEN Done([cur EXCEPT ![side].name = Some(value)], skp)
    ELSE Panic(cur, skp)

HeaderElo(cur, skp, side, value) ==
  IF value = <<"?">> THEN Done(cur, skp)
  ELSE LET r == BtoiU16(value)
       IN IF r.ok THEN Done([cur EXCEPT ![side].rating = Some(r.val)], skp)
          ELSE Panic(cur, skp)

\* As HeaderTimeControl, but a bad time control only rejects the game.
HeaderTimeControlSkips(cur, skp, value) ==
  LET r == SpeedFromBytes(value)
  IN IF r.ok THEN Done([cur EXCEPT !.speed = Some(r.val)], skp)
     ELSE Done(cur, TRUE)

HeaderTimeControl(cur, skp, value) ==
  LET r == SpeedFromBytes(value)
  IN IF r.ok THEN Done([cur EXCEPT !.speed = Some(r.val)], skp)
     ELSE Panic(cur, skp)

HeaderVariant(cur, skp, value) ==
  IF Utf8Ok(value) THEN Done([cur EXCEPT !.variant = Some(value)], skp)
  ELSE Panic(cur, skp)

HeaderDate(cur, skp, value) ==
  IF Utf8Ok(value) THEN Done([cur EXCEPT !.date = Some(value)], skp)
  ELSE Panic(cur, skp)

HeaderTitleIgnored(cur, skp, value) == Done(cur, skp)
HeaderTitle(cur, skp, value) ==
  IF value = <<"B", "O", "T">> THEN Done(cur, TRUE) ELSE Done(cur, skp)

\* rsplitn(2, '/').next(): the text after the last '/', the whole value when
\* there is none.
HeaderSite(cur, skp, value) ==
  LET seg == SubSeq(value, LastIndex(value, "/") + 1, Len(value))
  IN IF Utf8Ok(seg) THEN Done([cur EXCEPT !.id = Some(seg)], skp)
     ELSE Panic(cur, skp)

HeaderResultPanics(cur, skp, value) ==
  LET r == OutcomeFromAscii(value)
  IN IF r.ok THEN Done([cur EXCEPT !.winner = r.val], skp)
     ELSE Panic(cur, skp)
HeaderResult(cur, skp, value) ==
  LET r == OutcomeFromAscii(value)
  IN IF r.ok THEN Done([cur EXCEPT !.winner = r.val], skp)
     ELSE Done(cur, TRUE)

HeaderFen(cur, skp, value) ==
  IF value = StartFen THEN Done([cur EXCEPT !.fen = None], skp)
  ELSE IF Utf8Ok(value) THEN Done([cur EXCEPT !.fen = Some(value)], skp)
  ELSE Panic(cur, skp)

ImporterHeader(cur, skp, key, value) ==
  IF key = "White" THEN HeaderName(cur, skp, "white", value)
  ELSE IF key = "Black" THEN HeaderName(cur, skp, "black", value)
  ELSE IF key = "WhiteElo" THEN HeaderElo(cur, skp, "white", value)
  ELSE IF key = "BlackElo" THEN HeaderElo(cur, skp, "black", value)
  ELSE IF key = "TimeControl" THEN HeaderTimeControl(cur, skp, value)
  ELSE IF key = "Variant" THEN HeaderVariant(cur, skp, value)
  ELSE IF key \in {"Date", "UTCDate"} THEN HeaderDate(cur, skp, value)
  ELSE IF key \in {"WhiteTitle", "BlackTitle"} THEN HeaderTitle(cur, skp, value)
  ELSE IF key = "Site" THEN HeaderSite(cur, skp, value)
  ELSE IF key = "Result" THEN HeaderResult(cur, skp, value)
  ELSE IF key = "FEN" THEN HeaderFen(cur, skp, value)
  ELSE Done(cur, skp)

\* What header can do, over the builds: its outcome, and a panic where an
\* overflow check fires.
HeaderOutcomes(cur, skp, key, value) ==
  {ImporterHeader(cur, skp, key, value)}
  \cup (IF key = "TimeControl" /\ TimeControlOverflows(value)
          THEN {Panic(cur, skp)} ELSE {})

\* --------------------------------------------------------- sampling policy
Min(a, b) == IF a <= b THEN a ELSE b

WhiteRating(cur) == UnwrapOr(cur.white.rating, 0)
BlackRating(cur) == UnwrapOr(cur.black.rating, 0)
MinOfRatings(cur) == Min(WhiteRating(cur), BlackRating(cur))

\* The u16 sum of the two ratings leaves the type when it exceeds U16Max.
RatingSumOverflows(cur) == WhiteRating(cur) + BlackRating(cur) > U16Max

\* (white + black) / 2 in u16 arithmetic, the sum wrapping (a build without
\* overflow checks) when it leaves the type.
AverageRating(cur) ==
  ((WhiteRating(cur) + BlackRating(cur)) % (U16Max + 1)) \div 2

\* Every game taken for a standard one.
IsStandardAlways(cur) == TRUE

IsStandard(cur) ==
  cur.variant = None \/ cur.variant = Some(<<"S", "t", "a", "n", "d", "a", "r", "d">>)

\* As Probability, with the blitz row of the table shifted by one band.
ProbabilityBlitzShifted(standard, speed, rating) ==
  IF standard
    THEN IF speed \in {"correspondence", "classical"} THEN 100
         ELSE IF rating >= 2500 THEN 100
         ELSE IF speed = "rapid" /\ rating >= 2200 THEN 100
         ELSE IF speed = "rapid" /\ rating >= 2000 THEN 83
         ELSE IF speed = "rapid" /\ rating >= 1800 THEN 46
         ELSE IF speed = "rapid" /\ rating >= 1600 THEN 39
         ELSE IF speed = "blitz" /\ rating >= 2200 THEN 38
         ELSE IF speed = "blitz" /\ rating >= 1800 THEN 18
         ELSE IF speed = "blitz" /\ rating >= 1600 THEN 13
         ELSE IF speed = "bullet" /\ rating >= 2200 THEN 48
         ELSE IF speed = "bullet" /\ rating >= 2000 THEN 27
         ELSE IF speed = "bullet" /\ rating >= 1800 THEN 19
         ELSE IF speed = "bullet" /\ rating >= 1600 THEN 18
         ELSE IF speed = "ultraBullet" THEN 100
         ELSE 2
    ELSE IF rating >= 1600 THEN 100 ELSE 50

\* The acceptance probability, in hundredths.
Probability(standard, speed, rating) ==
  IF standard
    THEN IF speed \in {"correspondence", "classical"} THEN 100
         ELSE IF rating >= 2500 THEN 100
         ELSE IF speed = "rapid" /\ rating >= 2200 THEN 100
         ELSE IF speed = "rapid" /\ rating >= 2000 THEN 83
         ELSE IF speed = "rapid" /\ rating >= 1800 THEN 46
         ELSE IF speed = "rapid" /\ rating >= 1600 THEN 39
         ELSE IF speed = "blitz" /\ rating >= 2200 THEN 38
         ELSE IF speed = "blitz" /\ rating >= 2000 THEN 18
         ELSE IF speed = "blitz" /\ rating >= 1600 THEN 13
         ELSE IF speed = "bullet" /\ rating >= 2200 THEN 48
         ELSE IF speed = "bullet" /\ rating >= 2000 THEN 27
         ELSE IF speed = "bullet" /\ rating >= 1800 THEN 19
         ELSE IF speed = "bullet" /\ rating >= 1600 THEN 18
         ELSE IF speed = "ultraBullet" THEN 100
         ELSE 2
    ELSE IF rating >= 1600 THEN 100 ELSE 50

GameProbability(cur) ==
  Probability(IsStandard(cur), UnwrapOr(cur.speed, "correspondence"),
              AverageRating(cur))

\* The && chain of end_headers short-circuits: the sample is drawn exactly
\* when the minimum rating passes, before the skip flag is looked at.
DrawsSampleAlways(cur) == TRUE
DrawsSample(cur) == MinOfRatings(cur) >= MinRating

AcceptAnyRating(cur, skp, sample) ==
  /\ GameProbability(cur) >= sample
  /\ ~skp
Accept(cur, skp, sample) ==
  /\ MinOfRatings(cur) >= MinRating
  /\ GameProbability(cur) >= sample
  /\ ~skp

\* A begin_variation that lets the reader into the variation.
BeginVariationStays == FALSE

\* Importer::begin_variation: Skip(true).
BeginVariationSkip == TRUE

\* ------------------------------------------------------------------- state
VARIABLES
  batch_size,  \* args.batch_size
  pc,          \* main thread: "loop", "read", "send", "join", "exit_ok",
               \*   "exit_err" (main returned an io::Error), "panic"
  fileNo,      \* number of the file of the current Importer (its filename)
  gamesLeft,   \* input: games the files of the run still hold, at most
  ord,         \* games begun so far in the current file
  phase,       \* reader, within read_all: "idle", "headers", "movetext"
  rest,        \* reader: the unread headers and movetext of the current game
  vskip,       \* reader: nesting depth of the variation being skipped
  rng,         \* importer.rng: samples drawn since it was seeded
  current,     \* importer.current
  skip,        \* importer.skip
  batch,       \* importer.batch
  outbox,      \* the Batch inside a tx.send call that has not returned
  ret,         \* where the main thread continues once tx.send returns
  queue,       \* the bounded channel
  txOpen,      \* some Sender is alive
  rxAlive,     \* the Receiver is alive
  bgPc,        \* uploader thread: "recv", "put", "await", "done", "panic"
  held,        \* uploader thread: the batch of the current loop iteration
  stream,      \* the samples the seeded generator yields, as far as drawn
  seen,        \* history: what the headers read so far in the current game
               \*   carried, of "bot" (a bot title), "badResult" and
               \*   "badClock" (a time control that cannot be parsed)
  decided,     \* history: one entry per end_headers that returned: the
               \*   game's file and ordinal, its marks, the record, the
               \*   skip flag and the generator's draw count on entry, the
               \*   movetext ahead, and the decision
  filesDone,   \* history: files whose end-of-file batch the channel took
  flushed,     \* history: the batches the channel took, in order
  started,     \* history: the batches whose request was issued, in order
  completed    \* history: number of requests that returned a response

vars ==
  <<batch_size, pc, fileNo, gamesLeft, ord, phase, rest, vskip, rng, current,
    skip, batch, outbox, ret, queue, txOpen, rxAlive, bgPc, held, stream,
    seen, decided, filesDone, flushed, started, completed>>

readerVars == <<phase, rest, vskip>>
importerVars == <<rng, current, skip, batch>>
channelVars == <<queue, txOpen, rxAlive>>
bgVars == <<bgPc, held, started, completed>>

\* ------------------------------------------------------------------ inputs
H(k, v) == [key |-> k, value |-> v]
NoGame == [headers |-> <<>>, movetext |-> <<>>]

Elo1500 == <<"1", "5", "0", "0">>
Elo2000 == <<"2", "0", "0", "0">>
Elo2600 == <<"2", "6", "0", "0">>
BadResult == <<"1", "/", "2", "-", "1", "/", "2", "*">>

\* Both players 2600, no clock: probability 1.00.
StrongGame ==
  [headers |-> <<H("WhiteElo", Elo2600), H("BlackElo", Elo2600)>>,
   movetext |-> <<"e4", "(", "d4", ")", "e5">>]
\* Minimum rating 1500.
WeakGame ==
  [headers |-> <<H("WhiteElo", Elo1500), H("BlackElo", Elo2000)>>,
   movetext |-> <<"d4">>]
\* Blitz at 2000: probability 0.18.
BlitzGame ==
  [headers |-> <<H("WhiteElo", Elo2000), H("BlackElo", Elo2000),
                 H("TimeControl", <<"3", "0", "0", "+", "0">>)>>,
   movetext |-> <<"c4">>]
\* A strong game whose Result cannot be parsed.
BadResultGame ==
  [headers |-> <<H("WhiteElo", Elo2600), H("BlackElo", Elo2600),
                 H("Result", BadResult)>>,
   movetext |-> <<"e4">>]

\* Ratings whose u16 sum overflows.
OverflowGame ==
  [headers |-> <<H("WhiteElo", <<"4", "0", "0", "0", "0">>),
                 H("BlackElo", <<"4", "0", "0", "0", "0">>)>>,
   movetext |-> <<"e4">>]
\* A time control that cannot be parsed.
BadClockGame ==
  [headers |-> <<H("TimeControl", <<"6", "0", "0">>)>>,
   movetext |-> <<"e4">>]

DigitChar(k) == CHOOSE c \in Digits : DigitVal(c) = k

\* The Site header of the k-th game of a file.
SiteHeader(k) == H("Site", <<"l", "i", ".", "o", "r", "g", "/", DigitChar(k)>>)
WithSite(k, g) == [g EXCEPT !.headers = <<SiteHeader(k)>> \o @]

\* The games the k-th game of a file is drawn from.
Catalogue(k) ==
  {WithSite(k, g) :
     g \in {StrongGame, WeakGame, BlitzGame, BadResultGame, OverflowGame,
            BadClockGame}}

\* Every game of at most MaxHeaders headers drawn from HeaderPool: ratings
\* around the 1501 threshold, absent, unknown and overflowing; a bullet time
\* control; a variant; bot titles; a good and a bad result.
HeaderPool ==
  {H("WhiteElo", Elo1500), H("WhiteElo", <<"1", "7", "0", "0">>),
   H("WhiteElo", <<"?">>), H("WhiteElo", <<"4", "0", "0", "0", "0">>),
   H("BlackElo", Elo2000),
   H("BlackElo", <<"4", "0", "0", "0", "0">>),
   H("TimeControl", <<"6", "0", "+", "0">>),
   H("Variant", <<"A", "t", "o", "m", "i", "c">>),
   H("WhiteTitle", <<"B", "O", "T">>), H("BlackTitle", <<"B", "O", "T">>),
   H("Result", <<"1", "-", "0">>), H("Result", BadResult)}

HeaderLists == UNION {[1..n -> HeaderPool] : n \in 0..MaxHeaders}

RichCatalogue(k) ==
  {[headers |-> hs, movetext |-> <<"e4", "(", "d4", ")", "e5">>] :
     hs \in HeaderLists}

\* Time controls: seconds and increments around every threshold of the
\* classifier, pairs of equal total, and the largest u64 and increment whose
\* product by 40 fits, with their successors.
ClockSeconds ==
  {<<"0">>, <<"2", "9">>, <<"3", "0">>, <<"4", "0">>, <<"1", "7", "9">>,
   <<"1", "8", "0">>, <<"4", "7", "9">>, <<"4", "8", "0">>,
   <<"1", "4", "9", "9">>, <<"1", "5", "0", "0">>, <<"2", "1", "5", "9", "9">>,
   <<"2", "1", "6", "0", "0">>,
   <<"1", "8", "4", "4", "6", "7", "4", "4", "0", "7", "3", "7", "0", "9", "5", "5", "1", "6", "1", "5">>}
ClockIncrements ==
  {<<"0">>, <<"1">>, <<"1", "2">>, <<"3", "7">>, <<"5", "4", "0">>,
   <<"4", "6", "1", "1", "6", "8", "6", "0", "1", "8", "4", "2", "7", "3", "8", "7", "9", "0">>,
   <<"4", "6", "1", "1", "6", "8", "6", "0", "1", "8", "4", "2", "7", "3", "8", "7", "9", "1">>}
ClockPool ==
  {sec \o <<"+">> \o inc : sec \in ClockSeconds, inc \in ClockIncrements}
  \cup {<<"-">>, <<"6", "0", "0">>, <<"+", "1">>, <<"1", "+">>,
         <<"1", "+", "2", "+", "3">>,
         <<"1", "8", "4", "4", "6", "7", "4", "4", "0", "7", "3", "7", "0", "9", "5", "5", "1", "6", "1", "6">> \o <<"+", "0">>}

\* A game of two players at 2600 with time control tc.
ClockGame(tc) ==
  [headers |-> <<H("WhiteElo", Elo2600), H("BlackElo", Elo2600),
                 H("TimeControl", tc)>>,
   movetext |-> <<"e4", "(", "d4", ")", "e5">>]

ClockCatalogue(k) ==
  {WithSite(k, ClockGame(tc)) : tc \in ClockPool} \cup {WithSite(k, OverflowGame)}

\* The decimal spelling of n.
RECURSIVE Decimal(_)
Decimal(n) ==
  IF n < 10 THEN <<DigitChar(n)>>
  ELSE Append(Decimal(n \div 10), DigitChar(n % 10))

\* Pairs of ratings: both at either side of every band of the table, pairs
\* that average 1700 or straddle a band, a pair at and a pair under the
\* minimum, one rating absent (0 here), and a pair whose u16 sum
\* overflows.
PolicyRatings ==
  {<<r, r>> : r \in {1501, 1599, 1600, 1700, 1799, 1800, 1999, 2000, 2199,
                     2200, 2499, 2500}}
  \cup {<<1500, 1900>>, <<1501, 1899>>, <<1600, 1601>>, <<1599, 1600>>,
         <<0, 3400>>, <<33000, 33000>>}

\* No time control, and one of every bucket but correspondence.
PolicyClocks ==
  {<<>>, <<"1", "5", "+", "0">>, <<"6", "0", "+", "0">>,
   <<"3", "0", "0", "+", "0">>, <<"6", "0", "0", "+", "0">>,
   <<"1", "8", "0", "0", "+", "0">>}

PolicyVariants ==
  {<<>>, <<"S", "t", "a", "n", "d", "a", "r", "d">>,
   <<"A", "t", "o", "m", "i", "c">>}

EloHeader(key, r) == H(key, IF r = 0 THEN <<"?">> ELSE Decimal(r))

PolicyGame(ratings, clock, variant) ==
  [headers |-> <<EloHeader("WhiteElo", ratings[1]),
                 EloHeader("BlackElo", ratings[2])>>
               \o (IF clock = <<>> THEN <<>> ELSE <<H("TimeControl", clock)>>)
               \o (IF variant = <<>> THEN <<>> ELSE <<H("Variant", variant)>>),
   movetext |-> <<"e4">>]

\* A variant game at 1700 played by a bot.
BotVariantGame ==
  [headers |-> <<H("WhiteElo", <<"1", "7", "0", "0">>),
                 H("BlackElo", <<"1", "7", "0", "0">>),
                 H("Variant", <<"A", "t", "o", "m", "i", "c">>),
                 H("BlackTitle", <<"B", "O", "T">>)>>,
   movetext |-> <<"e4">>]

PolicyCatalogue(k) ==
  {WithSite(k, PolicyGame(r, c, v)) :
     r \in PolicyRatings, c \in PolicyClocks, v \in PolicyVariants}
  \cup {WithSite(k, StrongGame), WithSite(k, BotVariantGame)}

\* A classical game with names, a result, a position and nested variations.
FullGame ==
  [headers |-> <<H("White", <<"A", "n", "n">>), H("WhiteElo", Elo2600),
                 H("BlackElo", Elo2000),
                 H("TimeControl", <<"1", "8", "0", "0", "+", "0">>),
                 H("Result", <<"0", "-", "1">>),
                 H("FEN", <<"8/8/8/8/8/8/8/K6k w - - 0 1">>)>>,
   movetext |-> <<"e4", "(", "d4", "(", "c4", ")", "d5", ")", "e5">>]

\* Games that differ in what they leave in the record, in whether they draw
\* a sample and in how they are rejected.
RecordCatalogue(k) ==
  {WithSite(k, g) : g \in {FullGame, WeakGame, BlitzGame, BadResultGame, OverflowGame}}

\* Games that all pass the filter.
LoadCatalogue(k) == {WithSite(k, g) : g \in {StrongGame, OverflowGame}}

\* The samples (in hundredths, of the interval (0, 1]) the generator may
\* yield.
Samples == {10, 100}

\* -------------------------------------------------------------------- Init
InitWith(games) ==
  /\ batch_size \in 0..MaxBatchSize
  /\ pc = "loop"
  /\ fileNo = 0
  /\ gamesLeft = games
  /\ ord = 0
  /\ phase = "idle"
  /\ rest = NoGame
  /\ vskip = 0
  /\ rng = 0
  /\ current = DefaultGame
  /\ skip = FALSE
  /\ batch = <<>>
  /\ outbox = None
  /\ ret = "loop"
  /\ queue = <<>>
  /\ txOpen = TRUE
  /\ rxAlive = TRUE
  /\ bgPc = "recv"
  /\ held = None
  /\ stream = <<>>
  /\ seen = {}
  /\ decided = <<>>
  /\ filesDone = 0
  /\ flushed = <<>>
  /\ started = <<>>
  /\ completed = 0

Init == InitWith(MaxGames)

\* The process lives until the main thread returns or panics.
Running == pc \in {"loop", "read", "send", "join"}

MakeBatch(f, games) == [filename |-> f, games |-> games]

\* ------------------------------------------------------------- main thread
\* As OpenFile, but the new importer takes over the generator of the last.
OpenFileKeepsRng ==
  /\ pc = "loop"
  /\ fileNo < MaxFiles
  /\ fileNo' = fileNo + 1
  /\ ord' = 0
  /\ phase' = "idle"
  /\ rest' = NoGame
  /\ vskip' = 0
  /\ current' = DefaultGame
  /\ skip' = FALSE
  /\ batch' = <<>>
  /\ pc' = "read"
  /\ UNCHANGED <<batch_size, seen, filesDone, gamesLeft, rng, outbox, ret,
                 channelVars, bgVars, stream, decided, flushed>>

\* for arg in args.pgns: File::open succeeds, Importer::new.
OpenFile ==
  /\ pc = "loop"
  /\ fileNo < MaxFiles
  /\ fileNo' = fileNo + 1
  /\ ord' = 0
  /\ phase' = "idle"
  /\ rest' = NoGame
  /\ vskip' = 0
  /\ rng' = 0
  /\ current' = DefaultGame
  /\ skip' = FALSE
  /\ batch' = <<>>
  /\ pc' = "read"
  /\ UNCHANGED <<batch_size, seen, filesDone, gamesLeft, outbox, ret, channelVars, bgVars,
                 stream, decided, flushed>>

\* File::open(&arg)? fails: main returns the error.
OpenFail ==
  /\ pc = "loop"
  /\ fileNo < MaxFiles
  /\ pc' = "exit_err"
  /\ UNCHANGED <<batch_size, seen, filesDone, fileNo, gamesLeft, ord, readerVars, importerVars,
                 outbox, ret, channelVars, bgVars, stream, decided, flushed>>

\* The loop is over: drop(tx), then bg.join().
DropTx ==
  /\ pc = "loop"
  /\ txOpen' = FALSE
  /\ pc' = "join"
  /\ UNCHANGED <<batch_size, seen, filesDone, fileNo, gamesLeft, ord, readerVars, importerVars,
                 outbox, ret, queue, rxAlive, bgVars, stream, decided, flushed>>

\* read_all meets an io::Error (between two games): main returns it.
ReadError ==
  /\ pc = "read"
  /\ phase = "idle"
  /\ pc' = "exit_err"
  /\ UNCHANGED <<batch_size, seen, filesDone, fileNo, gamesLeft, ord, readerVars, importerVars,
                 outbox, ret, channelVars, bgVars, stream, decided, flushed>>

\* The reader is between games and the file holds another one.
AnotherGame ==
  /\ pc = "read"
  /\ phase = "idle"
  /\ gamesLeft > 0

\* The reader finds game g: Importer::begin_game.
BeginGameWith(g) ==
  /\ rest' = g
  /\ gamesLeft' = gamesLeft - 1
  /\ ord' = ord + 1
  /\ phase' = "headers"
  /\ vskip' = 0
  /\ skip' = FALSE
  /\ current' = DefaultGame
  /\ seen' = {}
  /\ UNCHANGED <<batch_size, filesDone, pc, fileNo, rng, batch, outbox, ret, channelVars,
                 bgVars, stream, decided, flushed>>

\* The next game of the file, from each of the input sets.
BeginGame ==
  /\ AnotherGame
  /\ \E g \in Catalogue(ord + 1) : BeginGameWith(g)

BeginGameRich ==
  /\ AnotherGame
  /\ \E g \in RichCatalogue(ord + 1) : BeginGameWith(g)

BeginGameLoad ==
  /\ AnotherGame
  /\ \E g \in LoadCatalogue(ord + 1) : BeginGameWith(g)

BeginGamePolicy ==
  /\ AnotherGame
  /\ \E g \in PolicyCatalogue(ord + 1) : BeginGameWith(g)

BeginGameRecord ==
  /\ AnotherGame
  /\ \E g \in RecordCatalogue(ord + 1) : BeginGameWith(g)

BeginGameClock ==
  /\ AnotherGame
  /\ \E g \in ClockCatalogue(ord + 1) : BeginGameWith(g)

\* What a header carries of the marks the history keeps.
Marks(h) ==
  (IF h.key \in {"WhiteTitle", "BlackTitle"} /\ h.value = <<"B", "O", "T">>
     THEN {"bot"} ELSE {})
  \cup
  (IF h.key = "Result" /\ ~OutcomeFromAscii(h.value).ok
     THEN {"badResult"} ELSE {})
  \cup
  (IF h.key = "TimeControl" /\ ~SpeedFromBytes(h.value).ok
     THEN {"badClock"} ELSE {})

\* The reader delivers the next header: Importer::header.
ReadHeader ==
  /\ pc = "read"
  /\ phase = "headers"
  /\ rest.headers # <<>>
  /\ LET h == Head(rest.headers)
     IN \E r \in HeaderOutcomes(current, skip, h.key, h.value) :
          /\ current' = r.current
          /\ skip' = r.skip
          /\ pc' = IF r.panic THEN "panic" ELSE "read"
  /\ seen' = seen \cup Marks(Head(rest.headers))
  /\ rest' = [rest EXCEPT !.headers = Tail(@)]
  /\ UNCHANGED <<batch_size, filesDone, fileNo, gamesLeft, ord, phase, vskip, rng, batch,
                 outbox, ret, channelVars, bgVars, stream, decided, flushed>>

\* Importer::end_headers; the reader skips the movetext when it returns
\* Skip(true).
EndHeadersWith(sample) ==
  LET accept == Accept(current, skip, sample)
  IN /\ skip' = ~accept
     /\ rest' = IF accept THEN rest ELSE [rest EXCEPT !.movetext = <<>>]
     /\ decided' = Append(decided, [file |-> fileNo, ord |-> ord,
                                    marks |-> seen, accept |-> accept,
                                    cur |-> current, skipped |-> skip,
                                    draw |-> rng, movetext |-> rest.movetext])
     /\ phase' = "movetext"

\* A generator seeded from the environment: any sample at any draw.
Unseeded(strm, k) == Samples

\* What a generator built by SmallRng::from_seed on the constant seed
\* yields at its draw number k + 1: what strm says, as far as strm is known.
NextSample(strm, k) == IF k < Len(strm) THEN {strm[k + 1]} ELSE Samples

EndHeaders ==
  /\ pc = "read"
  /\ phase = "headers"
  /\ rest.headers = <<>>
  /\ IF DrawsSample(current)
       THEN /\ rng' = rng + 1
            /\ \E s \in NextSample(stream, rng) :
                 /\ EndHeadersWith(s)
                 /\ stream' = IF rng < Len(stream) THEN stream
                                ELSE Append(stream, s)
       ELSE /\ EndHeadersWith(0)
            /\ UNCHANGED <<rng, stream>>
  /\ UNCHANGED <<batch_size, seen, filesDone, pc, fileNo, gamesLeft, ord, vskip, current, batch,
                 outbox, ret, channelVars, bgVars, flushed>>

\* A build with overflow checks panics in end_headers when the u16 sum of
\* the ratings overflows.
EndHeadersOverflow ==
  /\ pc = "read"
  /\ phase = "headers"
  /\ rest.headers = <<>>
  /\ RatingSumOverflows(current)
  /\ pc' = "panic"
  /\ UNCHANGED <<batch_size, seen, filesDone, fileNo, gamesLeft, ord, readerVars, importerVars,
                 outbox, ret, channelVars, bgVars, stream, decided, flushed>>

IsSan(tok) == tok \notin {"(", ")"}

\* A mainline move: Importer::san.
San ==
  /\ pc = "read"
  /\ phase = "movetext"
  /\ rest.movetext # <<>>
  /\ vskip = 0
  /\ IsSan(Head(rest.movetext))
  /\ current' = [current EXCEPT !.moves = Append(@, Head(rest.movetext))]
  /\ rest' = [rest EXCEPT !.movetext = Tail(@)]
  /\ UNCHANGED <<batch_size, seen, filesDone, pc, fileNo, gamesLeft, ord, phase, vskip, rng,
                 skip, batch, outbox, ret, channelVars, bgVars, stream,
                 decided, flushed>>

\* A variation opens or closes: Importer::begin_variation decides whether
\* the reader skips it (end_variation is the default no-op).
Variation ==
  /\ pc = "read"
  /\ phase = "movetext"
  /\ rest.movetext # <<>>
  /\ vskip = 0
  /\ ~IsSan(Head(rest.movetext))
  /\ vskip' = IF Head(rest.movetext) = "(" /\ BeginVariationSkip THEN 1 ELSE 0
  /\ rest' = [rest EXCEPT !.movetext = Tail(@)]
  /\ UNCHANGED <<batch_size, seen, filesDone, pc, fileNo, gamesLeft, ord, phase, importerVars,
                 outbox, ret, channelVars, bgVars, stream, decided, flushed>>

\* Inside a skipped variation the reader calls nothing.
SkippedToken ==
  /\ pc = "read"
  /\ phase = "movetext"
  /\ rest.movetext # <<>>
  /\ vskip > 0
  /\ vskip' = CASE Head(rest.movetext) = "(" -> vskip + 1
                 [] Head(rest.movetext) = ")" -> vskip - 1
                 [] OTHER -> vskip
  /\ rest' = [rest EXCEPT !.movetext = Tail(@)]
  /\ UNCHANGED <<batch_size, seen, filesDone, pc, fileNo, gamesLeft, ord, phase, importerVars,
                 outbox, ret, channelVars, bgVars, stream, decided, flushed>>

\* end_game keeps the game unless the skip flag is set.
KeepsAllGames(skp) == TRUE
Keeps(skp) == ~skp

\* end_game sends the batch once it has reached the batch size.
BatchFullLate(len, size) == len > size
BatchFull(len, size) == len >= size

\* Importer::send: mem::replace leaves a fresh, empty batch behind.
LeftBehind(games) == <<>>

\* Importer::end_game, up to the tx.send of Importer::send.
EndGame ==
  /\ pc = "read"
  /\ phase = "movetext"
  /\ rest.movetext = <<>>
  /\ phase' = "idle"
  /\ IF Keeps(skip)
       THEN LET pushed == Append(batch, current)
            IN /\ current' = DefaultGame
               /\ IF BatchFull(Len(pushed), batch_size)
                    THEN /\ outbox' = Some(MakeBatch(fileNo, pushed))
                         /\ batch' = LeftBehind(pushed)
                         /\ pc' = "send"
                         /\ ret' = "read"
                    ELSE /\ batch' = pushed
                         /\ UNCHANGED <<outbox, pc, ret>>
       ELSE UNCHANGED <<current, batch, outbox, pc, ret>>
  /\ UNCHANGED <<batch_size, seen, filesDone, fileNo, gamesLeft, ord, rest, vskip, rng, skip,
                 channelVars, bgVars, stream, decided, flushed>>

\* As EndOfFile, but an empty batch is not sent.
EndOfFileSkipsEmpty ==
  /\ pc = "read"
  /\ phase = "idle"
  /\ IF batch = <<>>
       THEN /\ pc' = "loop"
            /\ filesDone' = fileNo
            /\ UNCHANGED <<outbox, ret>>
       ELSE /\ outbox' = Some(MakeBatch(fileNo, batch))
            /\ pc' = "send"
            /\ ret' = "loop"
            /\ UNCHANGED filesDone
  /\ batch' = <<>>
  /\ UNCHANGED <<batch_size, seen, fileNo, gamesLeft, ord, readerVars, rng,
                 current, skip, channelVars, bgVars, stream, decided, flushed>>

\* read_all returns Ok: importer.send(), up to its tx.send.
EndOfFile ==
  /\ pc = "read"
  /\ phase = "idle"
  /\ outbox' = Some(MakeBatch(fileNo, batch))
  /\ batch' = LeftBehind(batch)
  /\ pc' = "send"
  /\ ret' = "loop"
  /\ UNCHANGED <<batch_size, seen, filesDone, fileNo, gamesLeft, ord, readerVars, rng, current,
                 skip, channelVars, bgVars, stream, decided, flushed>>

\* A send on the bounded channel blocks while the channel is full.
HasRoomAlways(q) == TRUE
HasRoom(q) == Len(q) < QueueCap

\* As SendOk, but the batch is queued whether or not the receiver lives.
SendOkIgnoresDisconnect ==
  /\ pc = "send"
  /\ HasRoom(queue)
  /\ queue' = Append(queue, outbox[1])
  /\ flushed' = Append(flushed, outbox[1])
  /\ outbox' = None
  /\ pc' = ret
  /\ filesDone' = IF ret = "loop" THEN fileNo ELSE filesDone
  /\ UNCHANGED <<batch_size, seen, fileNo, gamesLeft, ord, readerVars,
                 importerVars, ret, txOpen, rxAlive, bgVars, stream, decided>>

\* tx.send returns Ok once the channel has room.
SendOk ==
  /\ pc = "send"
  /\ rxAlive
  /\ HasRoom(queue)
  /\ queue' = Append(queue, outbox[1])
  /\ flushed' = Append(flushed, outbox[1])
  /\ outbox' = None
  /\ pc' = ret
  /\ filesDone' = IF ret = "loop" THEN fileNo ELSE filesDone
  /\ UNCHANGED <<batch_size, seen, fileNo, gamesLeft, ord, readerVars, importerVars,
                 ret, txOpen, rxAlive, bgVars, stream, decided>>

\* tx.send returns Err when the receiver is gone: expect("send") panics.
SendDisconnected ==
  /\ pc = "send"
  /\ ~rxAlive
  /\ pc' = "panic"
  /\ UNCHANGED <<batch_size, seen, filesDone, fileNo, gamesLeft, ord, readerVars, importerVars,
                 outbox, ret, channelVars, bgVars, stream, decided, flushed>>

\* As JoinOk, but main returns without waiting for the uploader thread.
JoinOkNoWait ==
  /\ pc = "join"
  /\ pc' = "exit_ok"
  /\ UNCHANGED <<batch_size, seen, filesDone, fileNo, gamesLeft, ord,
                 readerVars, importerVars, outbox, ret, channelVars, bgVars,
                 stream, decided, flushed>>

\* bg.join() returns Ok: main returns Ok(()).
JoinOk ==
  /\ pc = "join"
  /\ bgPc = "done"
  /\ pc' = "exit_ok"
  /\ UNCHANGED <<batch_size, seen, filesDone, fileNo, gamesLeft, ord, readerVars, importerVars,
                 outbox, ret, channelVars, bgVars, stream, decided, flushed>>

\* bg.join() returns Err, the uploader having panicked: expect("bg join").
JoinPanic ==
  /\ pc = "join"
  /\ bgPc = "panic"
  /\ pc' = "panic"
  /\ UNCHANGED <<batch_size, seen, filesDone, fileNo, gamesLeft, ord, readerVars, importerVars,
                 outbox, ret, channelVars, bgVars, stream, decided, flushed>>

\* --------------------------------------------------------- uploader thread
producerVars ==
  <<batch_size, seen, filesDone, pc, fileNo, gamesLeft, ord, readerVars, importerVars, outbox,
    ret, stream, decided, flushed>>

\* As BgRecv, but a batch is handed over only once every sender is gone.
BgRecvAfterClose ==
  /\ Running
  /\ bgPc = "recv"
  /\ queue # <<>>
  /\ ~txOpen
  /\ held' = Some(Head(queue))
  /\ queue' = Tail(queue)
  /\ bgPc' = "put"
  /\ UNCHANGED <<producerVars, txOpen, rxAlive, started, completed>>

\* rx.recv() returns a batch.
BgRecv ==
  /\ Running
  /\ bgPc = "recv"
  /\ queue # <<>>
  /\ held' = Some(Head(queue))
  /\ queue' = Tail(queue)
  /\ bgPc' = "put"
  /\ UNCHANGED <<producerVars, txOpen, rxAlive, started, completed>>

\* rx.recv() returns Err, the channel being empty and every sender gone:
\* the loop and the thread end.
BgDisconnected ==
  /\ Running
  /\ bgPc = "recv"
  /\ queue = <<>>
  /\ ~txOpen
  /\ bgPc' = "done"
  /\ rxAlive' = FALSE
  /\ UNCHANGED <<producerVars, queue, txOpen, held, started, completed>>

\* As BgPut, but the loop goes on without waiting for the response.
BgPutNoWait ==
  /\ Running
  /\ bgPc = "put"
  /\ started' = Append(started, held[1])
  /\ held' = None
  /\ bgPc' = "recv"
  /\ UNCHANGED <<producerVars, channelVars, completed>>

\* The PUT request is built and goes out.
BgPut ==
  /\ Running
  /\ bgPc = "put"
  /\ started' = Append(started, held[1])
  /\ bgPc' = "await"
  /\ UNCHANGED <<producerVars, channelVars, held, completed>>

\* The response arrives and is printed; the loop iteration ends.
BgResponse ==
  /\ Running
  /\ bgPc = "await"
  /\ completed' = completed + 1
  /\ held' = None
  /\ bgPc' = "recv"
  /\ UNCHANGED <<producerVars, channelVars, started>>

\* The request cannot be built or sent, times out, or its body cannot be
\* decoded: expect panics, the thread unwinds and drops rx and its batch.
BgFail ==
  /\ Running
  /\ bgPc \in {"put", "await"}
  /\ bgPc' = "panic"
  /\ rxAlive' = FALSE
  /\ queue' = <<>>
  /\ held' = None
  /\ UNCHANGED <<producerVars, txOpen, started, completed>>

\* -------------------------------------------------------------------- Next
Main ==
  \/ OpenFile
  \/ OpenFail
  \/ DropTx
  \/ ReadError
  \/ ReadHeader
  \/ EndHeaders
  \/ EndHeadersOverflow
  \/ San
  \/ Variation
  \/ SkippedToken
  \/ EndGame
  \/ EndOfFile
  \/ SendOk
  \/ SendDisconnected
  \/ JoinOk
  \/ JoinPanic

Uploader ==
  \/ BgRecv
  \/ BgDisconnected
  \/ BgPut
  \/ BgResponse
  \/ BgFail

Producer == BeginGame \/ Main

Next == Producer \/ Uploader

Spec == Init /\ [][Next]_vars

\* Runs over a single game.
InitOneGame == InitWith(1)

\* Both threads are scheduled as long as they can take a step.
FairSpec ==
  /\ InitOneGame
  /\ [][Next]_vars
  /\ WF_vars(Producer)
  /\ WF_vars(Uploader)

\* Runs of games that all pass the filter, enough of them to fill the
\* channel and both threads' hands.
InitLoad == InitWith(QueueCap + 2)

ProducerLoad == BeginGameLoad \/ Main

NextLoad == ProducerLoad \/ Uploader

SpecLoad == InitLoad /\ [][NextLoad]_vars

NextRich == BeginGameRich \/ Main \/ Uploader

SpecRich == InitOneGame /\ [][NextRich]_vars

\* Single-game runs over the inputs of the sampling policy.
NextPolicy == BeginGamePolicy \/ Main \/ Uploader

SpecPolicy == InitOneGame /\ [][NextPolicy]_vars

\* Runs over games that differ in every field of the record.
NextRecords == BeginGameRecord \/ Main \/ Uploader

SpecRecords == Init /\ [][NextRecords]_vars

\* Single-game runs over the time controls.
NextClock == BeginGameClock \/ Main \/ Uploader

SpecClock == InitOneGame /\ [][NextClock]_vars

\* ================================================================== claims
IsPrefix(a, b) == Len(a) <= Len(b) /\ SubSeq(b, 1, Len(a)) = a

RECURSIVE FlatGames(_)
FlatGames(bs) ==
  IF bs = <<>> THEN <<>> ELSE Head(bs).games \o FlatGames(Tail(bs))

RECURSIVE SumGames(_)
SumGames(bs) ==
  IF bs = <<>> THEN 0 ELSE Len(Head(bs).games) + SumGames(Tail(bs))

\* The batches the channel took for file f, in order.
BatchesOf(f) == SelectSeq(flushed, LAMBDA b : b.filename = f)
Lens(f) == LET bs == BatchesOf(f) IN [i \in 1..Len(bs) |-> Len(bs[i].games)]
FlushedIds(f) ==
  LET g == FlatGames(BatchesOf(f)) IN [i \in 1..Len(g) |-> g[i].id]

\* The games of file f that end_headers accepted, by their Site ids.
AcceptedOf(f) == SelectSeq(decided, LAMBDA e : e.file = f /\ e.accept)
AcceptedIds(f) ==
  LET a == AcceptedOf(f) IN [i \in 1..Len(a) |-> Some(<<DigitChar(a[i].ord)>>)]

FileDone(f) == f <= filesDone

\* C1: for every file, the records of its flushed batches, concatenated in
\* flush order, are a prefix of the games of the file that were accepted, in
\* file order, and are all of them once the file's end-of-file batch is
\* flushed: nothing lost, duplicated or reordered.
OrderPreservation ==
  \A f \in 1..fileNo :
    /\ IsPrefix(FlushedIds(f), AcceptedIds(f))
    /\ FileDone(f) => FlushedIds(f) = AcceptedIds(f)

\* A file whose first game was rejected and whose second was accepted and
\* flushed.
OrderPreservationWitness ==
  /\ FileDone(1)
  /\ Len(decided) = 2
  /\ decided[1].file = 1 /\ ~decided[1].accept
  /\ decided[2].file = 1 /\ decided[2].accept
  /\ FlushedIds(1) = <<Some(<<"2">>)>>

\* Every flushed batch has at most max games, and exactly max unless it is
\* the end-of-file batch of its file.
BatchSizesWithin(max) ==
  \A f \in 1..fileNo :
    \A i \in 1..Len(Lens(f)) :
      /\ Lens(f)[i] <= max
      /\ ~(FileDone(f) /\ i = Len(Lens(f))) => Lens(f)[i] = max

\* C2 as stated: for every configured batch size (0 included) every batch
\* but the last of a file has exactly that length and the last at most that.
BatchSizeInvariantAnySize == BatchSizesWithin(batch_size)

\* C2, amended: the same for every configured batch size of at least 1.
BatchSizeInvariant == batch_size >= 1 => BatchSizesWithin(batch_size)

\* A file flushed as a full batch of two and an empty end-of-file batch.
BatchSizeInvariantWitness ==
  /\ batch_size = 2
  /\ FileDone(1)
  /\ Lens(1) = <<2, 0>>

\* floor(n / size) full batches followed by one batch of n mod size.
ExpectedLens(n, size) ==
  [i \in 1..((n \div size) + 1) |->
     IF i <= n \div size THEN size ELSE n % size]

\* C3: once a file is complete, with batch size B >= 1 and n accepted games
\* its flushes are floor(n / B) full batches followed by exactly one
\* end-of-file batch of n mod B games, also when that batch is empty.
EndOfFileFlush ==
  \A f \in 1..fileNo :
    (FileDone(f) /\ batch_size >= 1)
      => Lens(f) = ExpectedLens(Len(AcceptedOf(f)), batch_size)

\* Two accepted games with batch size 1: flushes of 1, 1 and 0; and a file
\* without any accepted game: one empty batch.
EndOfFileFlushWitness ==
  /\ batch_size = 1
  /\ FileDone(2)
  /\ Len(AcceptedOf(1)) = 2
  /\ Lens(1) = <<1, 1, 0>>
  /\ Lens(2) = <<0>>

InPipeline ==
  Len(batch)
  + (IF outbox = None THEN 0 ELSE Len(outbox[1].games))
  + SumGames(queue)
  + (IF held = None THEN 0 ELSE Len(held[1].games))

Max(a, b) == IF a >= b THEN a ELSE b

\* C5 as stated: never more than queue capacity x batch size games.
MemoryBoundCapTimesSize == InPipeline <= QueueCap * batch_size

\* C5, amended: the channel never holds more than its capacity of batches,
\* and the pipeline never more than (queue capacity + 2) x batch size games
\* (a batch size of 0 counting as 1): beside the channel's batches there is
\* the one being uploaded and the one a blocked send holds.
MemoryBound ==
  /\ Len(queue) <= QueueCap
  /\ InPipeline <= (QueueCap + 2) * Max(batch_size, 1)

\* The amended bound is met: a full channel, a batch in upload and a batch
\* in a blocked send.
MemoryBoundWitness ==
  /\ batch_size >= 1
  /\ Len(queue) = QueueCap
  /\ outbox # None
  /\ held # None
  /\ InPipeline = (QueueCap + 2) * batch_size

\* C6: main returns Ok only after the uploader's loop has ended, and that
\* loop ends only once the channel is closed and drained, every flushed
\* batch uploaded; under fair scheduling the run terminates, and once the
\* producer has closed the channel it exits with everything uploaded unless
\* an upload fails.
Shutdown ==
  /\ [](pc = "exit_ok" => bgPc = "done")
  /\ [](bgPc = "done"
          => /\ ~txOpen
             /\ queue = <<>>
             /\ started = flushed
             /\ completed = Len(flushed))
  /\ <>(~Running)
  /\ (pc = "join") ~> (pc = "exit_ok" \/ bgPc = "panic")

\* A run that ended well after uploading batches of two files.
ShutdownWitness ==
  /\ pc = "exit_ok"
  /\ Len(started) >= 2
  /\ started[1].games # <<>>
  /\ filesDone = 2

\* C7 as stated: once an upload has failed the producer does nothing more:
\* it reads no further game or header, appends nothing, enqueues nothing.
FailFastAtOnce ==
  [][bgPc = "panic"
       => UNCHANGED <<fileNo, gamesLeft, ord, phase, rest, current, batch,
                      flushed, started>>]_vars

\* C7, amended: once an upload has failed no later batch goes to the
\* network and none is enqueued, and the run cannot end well; the producer
\* may go on reading games and appending them to its open batch until its
\* next send (or the join), which panics.
FailFast ==
  [][bgPc = "panic"
       => /\ UNCHANGED <<flushed, started, completed, queue>>
          /\ pc' # "exit_ok"
          /\ pc = "send" => pc' = "panic"]_vars

\* The uploader failed on the batch of the first file and the producer
\* panicked in the send of a batch it had filled from the second file.
FailFastWitness ==
  /\ bgPc = "panic"
  /\ pc = "panic"
  /\ Len(flushed) = 1 /\ flushed[1].filename = 1
  /\ outbox # None
  /\ outbox[1].filename = 2
  /\ outbox[1].games # <<>>

\* The games of all batches, wherever they are.
BatchedGames ==
  FlatGames(flushed) \o batch
  \o (IF outbox = None THEN <<>> ELSE outbox[1].games)

\* C8: a game whose minimum rating (an absent rating counting as 0) is below
\* 1501 leaves end_headers with the skip flag set, whatever its speed,
\* variant, average rating and the sample, and no such game is in a batch.
RejectBelowMinimum ==
  /\ (phase = "movetext" /\ MinOfRatings(current) < 1501) => skip
  /\ \A i \in 1..Len(BatchedGames) : MinOfRatings(BatchedGames[i]) >= 1501

\* Ratings (1500, 2000) with a bullet time control: rejected.
RejectBelowMinimumWitness ==
  /\ phase = "movetext"
  /\ skip
  /\ WhiteRating(current) = 1500
  /\ BlackRating(current) = 2000
  /\ current.speed = Some("bullet")

\* C9: a game with a bot title on either player leaves end_headers with the
\* skip flag set, whatever else its headers say and in whatever order, and
\* is in no batch (the runs hold one game: every batch stays empty).
BotRejected ==
  /\ ("bot" \in seen /\ phase = "movetext") => skip
  /\ \A i \in 1..Len(decided) : "bot" \in decided[i].marks => ~decided[i].accept
  /\ "bot" \in seen => BatchedGames = <<>>

\* A bot game whose ratings pass the minimum, so that a sample was drawn.
BotRejectedWitness ==
  /\ "bot" \in seen
  /\ phase = "movetext"
  /\ MinOfRatings(current) >= 1501
  /\ rng = 1
  /\ GameProbability(current) = 100

\* C10: reading a Result that cannot be parsed does not abort the run and
\* sets the skip flag; end_headers returns skip, no move reaches the
\* builder, the game is in no batch, and the games after it are flushed as
\* usual.
BadResultSkipped ==
  /\ ("badResult" \in seen /\ phase \in {"headers", "movetext"})
       => (pc = "read" /\ skip /\ current.moves = <<>>)
  /\ \A i \in 1..Len(decided) :
       "badResult" \in decided[i].marks
         => /\ ~decided[i].accept
            /\ \A j \in 1..Len(FlushedIds(decided[i].file)) :
                 FlushedIds(decided[i].file)[j]
                   # Some(<<DigitChar(decided[i].ord)>>)
  /\ \A f \in 1..fileNo :
       (FileDone(f) /\ \E i \in 1..Len(decided) :
                         decided[i].file = f /\ "badResult" \in decided[i].marks)
         => FlushedIds(f) = AcceptedIds(f)

\* A file whose first game had an unparseable Result and whose second game
\* was accepted and flushed.
BadResultSkippedWitness ==
  /\ FileDone(1)
  /\ Len(decided) = 2
  /\ decided[1].file = 1 /\ "badResult" \in decided[1].marks
  /\ decided[2].file = 1 /\ decided[2].accept
  /\ FlushedIds(1) = <<Some(<<"2">>)>>

\* The reader is about to deliver a header carrying mark m, and in this
\* step delivers it.
Delivers(m) ==
  /\ pc = "read"
  /\ phase = "headers"
  /\ rest.headers # <<>>
  /\ m \in Marks(Head(rest.headers))
  /\ rest' # rest

\* C11 as stated: a time control or a result that cannot be parsed ends the
\* run in the header callback that meets it.
MalformationFatalAnyHeader ==
  [][(Delivers("badClock") \/ Delivers("badResult")) => pc' = "panic"]_vars

\* C11, amended: a time control that cannot be parsed panics in the header
\* callback, after which no game is read and nothing is batched, handed
\* over or uploaded; a result that cannot be parsed does not end the run:
\* it sets the skip flag and the reader goes on.
MalformationFatal ==
  [][/\ Delivers("badClock") => pc' = "panic"
     /\ pc = "panic" => UNCHANGED <<ord, phase, rest, current, batch, outbox,
                                     decided, flushed, started, completed>>
     /\ (Delivers("badResult") /\ ~Delivers("badClock"))
          => (pc' = "read" /\ skip')]_vars

\* The second game of a file has a bad time control; the first had been
\* accepted and flushed.
MalformationFatalWitness ==
  /\ pc = "panic"
  /\ "badClock" \in seen
  /\ ord = 2
  /\ Len(flushed) = 1
  /\ flushed[1].games # <<>>
  /\ Len(decided) = 1

\* The decisions of file f so far, and what each was taken on.
DecidedOf(f) == SelectSeq(decided, LAMBDA e : e.file = f)
InputOf(f) ==
  LET d == DecidedOf(f)
  IN [i \in 1..Len(d) |->
        [cur |-> d[i].cur, skipped |-> d[i].skipped, movetext |-> d[i].movetext]]
DecisionsOf(f) == LET d == DecidedOf(f) IN [i \in 1..Len(d) |-> d[i].accept]
ContentsOf(f) ==
  LET bs == BatchesOf(f) IN [i \in 1..Len(bs) |-> bs[i].games]

\* Decisions of the same file before decision i that drew a sample.
DrawsBefore(i) ==
  Cardinality({j \in 1..(i - 1) :
                 /\ decided[j].file = decided[i].file
                 /\ DrawsSample(decided[j].cur)})

\* C12: every decision is a function of the game's record and flag and of
\* the seed's sample at the position given by the file's earlier games,
\* whatever the threads' interleaving; and two files of equal games, each
\* read by an importer built on the same seed, get equal decisions and,
\* once done, equal batches.
Determinism ==
  /\ \A i \in 1..Len(decided) :
       LET e == decided[i]
           k == DrawsBefore(i)
       IN e.accept = (/\ DrawsSample(e.cur)
                      /\ k < Len(stream)
                      /\ Accept(e.cur, e.skipped, stream[k + 1]))
  /\ \A f \in 1..fileNo : \A g \in (f + 1)..fileNo :
       InputOf(f) = InputOf(g)
         => /\ DecisionsOf(f) = DecisionsOf(g)
            /\ (FileDone(f) /\ FileDone(g)) => ContentsOf(f) = ContentsOf(g)

\* Two files, each holding the same blitz game at 2000, both read to the
\* end: the game was accepted in both on a sample below its probability.
DeterminismWitness ==
  /\ filesDone = 2
  /\ Len(decided) = 2
  /\ decided[1].file = 1 /\ decided[2].file = 2
  /\ InputOf(1) = InputOf(2)
  /\ GameProbability(decided[1].cur) = 18
  /\ decided[1].accept /\ decided[2].accept
  /\ ContentsOf(2) # <<>>
  /\ ContentsOf(2)[1] # <<>>

\* Decisions of the whole run before decision i that drew a sample.
DrawsBeforeInRun(i) ==
  Cardinality({j \in 1..(i - 1) : DrawsSample(decided[j].cur)})

\* C13 as stated: one generator for the run, so that each decision finds it
\* advanced by all the samples drawn before in the run, in whatever file.
SeededOncePerRun ==
  \A i \in 1..Len(decided) : decided[i].draw = DrawsBeforeInRun(i)

\* C13, amended: the generator is built anew, on the same seed, for every
\* file; each decision finds it advanced by the samples drawn before in the
\* same file only, and the first game of every file finds it fresh.
SeededPerFile ==
  /\ \A i \in 1..Len(decided) : decided[i].draw = DrawsBefore(i)
  /\ (pc = "read" /\ ord = 0) => rng = 0
  /\ rng <= Len(stream)

\* The first game of the second file is decided on a fresh generator although
\* the first file drew a sample.
SeededPerFileWitness ==
  /\ Len(decided) = 2
  /\ decided[1].file = 1 /\ DrawsSample(decided[1].cur)
  /\ decided[2].file = 2 /\ DrawsSample(decided[2].cur)
  /\ decided[2].draw = 0
  /\ rng = 1
  /\ Len(stream) = 1

\* The classifier as documented, on the exact total seconds + 40 * increment.
DocumentedSpeed(seconds, increment) ==
  LET total == LimbsSmall(LimbsAdd(seconds, LimbsTimes(40, increment)))
  IN CASE total < 30 -> "ultraBullet"
       [] total >= 30 /\ total < 180 -> "bullet"
       [] total >= 180 /\ total < 480 -> "blitz"
       [] total >= 480 /\ total < 1500 -> "rapid"
       [] total >= 1500 /\ total < 21600 -> "classical"
       [] total >= 21600 -> "correspondence"

\* The reader is about to deliver a time control of two numbers that parse,
\* and in this step delivers it.
DeliversClock ==
  /\ pc = "read"
  /\ phase = "headers"
  /\ rest.headers # <<>>
  /\ Head(rest.headers).key = "TimeControl"
  /\ ClockParts(Head(rest.headers).value).ok
  /\ rest' # rest

\* C16: every pair of u64 read from a time control is classified, and into
\* the bucket the thresholds give for seconds + 40 * increment.
SpeedClassifierTotal ==
  [][DeliversClock
       => LET parts == ClockParts(Head(rest.headers).value).val
          IN /\ pc' = "read"
             /\ current'.speed
                  = Some(DocumentedSpeed(parts.seconds, parts.increment))]_vars

\* C16 where the total fits the u64: there the classifier is as documented.
SpeedClassifierInRange ==
  [][(DeliversClock /\ ~TimeControlOverflows(Head(rest.headers).value))
       => LET parts == ClockParts(Head(rest.headers).value).val
          IN /\ pc' = "read"
             /\ current'.speed
                  = Some(DocumentedSpeed(parts.seconds, parts.increment))]_vars

\* The documented table: rows of <<least average, probability>> per speed.
DocumentedBands(speed) ==
  CASE speed = "rapid" ->
         <<<<2200, 100>>, <<2000, 83>>, <<1800, 46>>, <<1600, 39>>>>
    [] speed = "blitz" -> <<<<2200, 38>>, <<2000, 18>>, <<1600, 13>>>>
    [] speed = "bullet" ->
         <<<<2200, 48>>, <<2000, 27>>, <<1800, 19>>, <<1600, 18>>>>
    [] OTHER -> <<>>

RECURSIVE BandLookup(_, _)
BandLookup(bands, average) ==
  IF bands = <<>> THEN 2
  ELSE IF average >= Head(bands)[1] THEN Head(bands)[2]
  ELSE BandLookup(Tail(bands), average)

DocumentedProbability(standard, speed, average) ==
  IF ~standard THEN (IF average >= 1600 THEN 100 ELSE 50)
  ELSE IF speed \in {"correspondence", "classical", "ultraBullet"} THEN 100
  ELSE IF average >= 2500 THEN 100
  ELSE BandLookup(DocumentedBands(speed), average)

DocumentedOf(cur) ==
  DocumentedProbability(IsStandard(cur), UnwrapOr(cur.speed, "correspondence"),
                        AverageRating(cur))

PassesHardFilter(e) == MinOfRatings(e.cur) >= 1501 /\ ~e.skipped

\* C14: for every game decided past the hard filter, the probability that
\* end_headers computes from the speed, the average it computed and the
\* variant flag is the documented one, and the game is accepted exactly when
\* that probability is at least the sample drawn; at 1.00 it is accepted.
ProbabilityTable ==
  \A i \in 1..Len(decided) :
    LET e == decided[i]
    IN PassesHardFilter(e)
         => /\ GameProbability(e.cur) = DocumentedOf(e.cur)
            /\ e.accept = (DocumentedOf(e.cur) >= stream[e.draw + 1])
            /\ DocumentedOf(e.cur) = 100 => e.accept

\* A standard rapid game at 2000 accepted on the sample 0.10 and batched.
ProbabilityTableWitness ==
  /\ Len(decided) = 1
  /\ decided[1].cur.speed = Some("rapid")
  /\ IsStandard(decided[1].cur)
  /\ AverageRating(decided[1].cur) = 2000
  /\ DocumentedOf(decided[1].cur) = 83
  /\ stream = <<10>>
  /\ decided[1].accept
  /\ phase = "idle"
  /\ BatchedGames # <<>>

\* floor((white + black) / 2) in the integers.
ExactAverage(cur) == (WhiteRating(cur) + BlackRating(cur)) \div 2

\* The game names a variant other than Standard.
NamesVariant(cur) ==
  /\ IsSome(cur.variant)
  /\ cur.variant[1] # <<"S", "t", "a", "n", "d", "a", "r", "d">>

\* C15 as stated: every game of a non-standard variant whose ratings average
\* 1700 is accepted, whatever the sample and the two ratings.
VariantAt1700Accepted ==
  \A i \in 1..Len(decided) :
    (NamesVariant(decided[i].cur) /\ ExactAverage(decided[i].cur) = 1700)
      => decided[i].accept

\* C15, amended: a game of a non-standard variant whose ratings average 1700
\* has probability 1.00 whatever its speed, and is accepted on every sample
\* provided that both ratings are at least 1501 and that no bot title or
\* unparseable result has set the skip flag; otherwise it is rejected.
VariantAt1700 ==
  \A i \in 1..Len(decided) :
    LET e == decided[i]
    IN (NamesVariant(e.cur) /\ ExactAverage(e.cur) = 1700)
         => /\ GameProbability(e.cur) = 100
            /\ e.accept = PassesHardFilter(e)

\* An Atomic blitz game of ratings 1501 and 1899 accepted on the sample 1.00.
VariantAt1700Witness ==
  /\ Len(decided) = 1
  /\ NamesVariant(decided[1].cur)
  /\ decided[1].cur.speed = Some("blitz")
  /\ WhiteRating(decided[1].cur) = 1501
  /\ BlackRating(decided[1].cur) = 1899
  /\ stream = <<100>>
  /\ decided[1].accept
  /\ Len(flushed) >= 1
  /\ flushed[1].games # <<>>

\* This step is an end_headers that returns.
Decides == Len(decided') = Len(decided) + 1

\* C17 as stated: a game that the hard filter rejects, for its minimum
\* rating or for a flag already set, leaves the generator as it was.
NoSampleWhenFiltered ==
  [][(Decides /\ (MinOfRatings(current) < 1501 \/ skip)) => rng' = rng]_vars

\* Decisions of the same file before decision i on ratings both at least
\* 1501.
RatedBefore(i) ==
  Cardinality({j \in 1..(i - 1) :
                 /\ decided[j].file = decided[i].file
                 /\ MinOfRatings(decided[j].cur) >= 1501})

\* C17, amended: end_headers draws no sample exactly when the minimum rating
\* is below 1501; a game already flagged by a bot title or an unparseable
\* result whose ratings pass is rejected too, but after one sample has been
\* drawn and wasted. So each game is decided on the sample whose position
\* is the number of earlier games of the file with ratings that pass,
\* flagged ones included.
SampleSkippedOnlyBelowMinimum ==
  /\ [][Decides => /\ rng' = (IF MinOfRatings(current) < 1501
                                 THEN rng ELSE rng + 1)
                    /\ skip => skip']_vars
  /\ [](\A i \in 1..Len(decided) : decided[i].draw = RatedBefore(i))

\* A strong game with an unparseable result, then a blitz game decided on
\* the second sample of the file.
SampleSkippedOnlyBelowMinimumWitness ==
  /\ Len(decided) = 2
  /\ decided[1].file = decided[2].file
  /\ "badResult" \in decided[1].marks
  /\ MinOfRatings(decided[1].cur) >= 1501
  /\ decided[2].marks = {}
  /\ GameProbability(decided[2].cur) = 18
  /\ decided[2].draw = 1
  /\ rng = 2

\* The mainline of a movetext: its moves outside every variation.
RECURSIVE MainlineFrom(_, _)
MainlineFrom(tokens, depth) ==
  IF tokens = <<>> THEN <<>>
  ELSE IF Head(tokens) = "(" THEN MainlineFrom(Tail(tokens), depth + 1)
  ELSE IF Head(tokens) = ")" THEN MainlineFrom(Tail(tokens), depth - 1)
  ELSE IF depth = 0 THEN <<Head(tokens)>> \o MainlineFrom(Tail(tokens), 0)
  ELSE MainlineFrom(Tail(tokens), depth)
Mainline(tokens) == MainlineFrom(tokens, 0)

\* The record that the headers of one game alone make of the empty record.
RECURSIVE HeadersRecord(_, _)
HeadersRecord(cur, headers) ==
  IF headers = <<>> THEN cur
  ELSE HeadersRecord(
         ImporterHeader(cur, FALSE, Head(headers).key, Head(headers).value).current,
         Tail(headers))

\* For each place in the run, what each game that can stand there makes of
\* the empty record, with its movetext.
GamesAlone ==
  [k \in 1..MaxGames |->
     {[cur |-> HeadersRecord(DefaultGame, g.headers), movetext |-> g.movetext] :
        g \in RecordCatalogue(k)}]

\* The whole games that end_headers accepted and end_game has seen, in order.
RECURSIVE WholeGames(_)
WholeGames(entries) ==
  IF entries = <<>> THEN <<>>
  ELSE LET e == Head(entries)
       IN (IF e.accept
             THEN <<[e.cur EXCEPT !.moves = Mainline(e.movetext)]>>
             ELSE <<>>)
          \o WholeGames(Tail(entries))

\* The decisions on games whose end_game has been called.
EndedGames ==
  IF phase = "movetext" THEN SubSeq(decided, 1, Len(decided) - 1) ELSE decided

\* C18: begin_game leaves the empty record and a cleared flag; the record
\* that end_headers decides on is made of the headers of that game alone;
\* the batches hold, in order, one record for each accepted game that has
\* ended and nothing else, each with the game's header fields and exactly
\* its mainline moves; while a game is read its moves are a prefix of its
\* mainline, empty for a rejected game.
WholeGameRecords ==
  /\ [][ord' = ord + 1 => (current' = DefaultGame /\ ~skip')]_vars
  /\ [](\A i \in 1..Len(decided) :
          [cur |-> decided[i].cur, movetext |-> decided[i].movetext]
            \in GamesAlone[decided[i].ord])
  /\ [](BatchedGames = WholeGames(EndedGames))
  /\ [](phase = "movetext"
          => LET e == decided[Len(decided)]
             IN /\ IsPrefix(current.moves, Mainline(e.movetext))
                /\ [current EXCEPT !.moves = <<>>] = e.cur
                /\ ~e.accept => current.moves = <<>>)

\* The game with nested variations, accepted after a rejected game and a
\* blitz game, is batched with its three fields and its two mainline moves.
WholeGameRecordsWitness ==
  /\ Len(decided) = 2
  /\ ~decided[1].accept
  /\ decided[1].cur.speed = Some("blitz")
  /\ decided[2].accept
  /\ phase = "idle"
  /\ Len(BatchedGames) = 1
  /\ BatchedGames[1].moves = <<"e4", "e5">>
  /\ BatchedGames[1].speed = Some("classical")
  /\ BatchedGames[1].winner = Some("black")
  /\ BatchedGames[1].white.name = Some(<<"A", "n", "n">>)
  /\ IsSome(BatchedGames[1].fen)
  /\ BatchedGames[1].id = Some(<<"2">>)

\* The main thread feeds the channel until it drops its sender.
Producing == pc \in {"loop", "read", "send"}

\* The uploader thread is in its loop.
Consuming == Running /\ bgPc \in {"recv", "put", "await"}

\* C19: the channel never holds more than its capacity; a producer sending
\* into a full channel cannot step and the uploader can, the producer steps
\* again only when the channel is below its capacity, and everywhere else
\* it can step; the uploader cannot step exactly when it receives from an
\* empty channel whose sender lives, and otherwise is building a request or
\* awaiting its response; as long as the process lives some thread can step.
QueueBlocking ==
  /\ Len(queue) <= QueueCap
  /\ (pc = "send" /\ Len(queue) = QueueCap)
       => (~ENABLED ProducerLoad /\ rxAlive /\ ENABLED Uploader)
  /\ (Producing /\ ~(pc = "send" /\ Len(queue) = QueueCap))
       => ENABLED ProducerLoad
  /\ Consuming
       => (ENABLED Uploader <=> ~(bgPc = "recv" /\ queue = <<>> /\ txOpen))
  /\ (Consuming /\ bgPc = "recv" /\ queue # <<>>) => ENABLED BgRecv
  /\ ~(pc = "send" /\ ~ENABLED ProducerLoad /\ bgPc = "recv" /\ queue = <<>>)
  /\ Running => ENABLED NextLoad

\* The producer is held by a full channel while the uploader awaits a
\* response, a batch in hand.
QueueBlockingWitness ==
  /\ pc = "send"
  /\ rxAlive
  /\ Len(queue) = QueueCap
  /\ IsSome(outbox)
  /\ bgPc = "await"
  /\ ~ENABLED ProducerLoad

\* The band that the true average of the ratings falls in.
TrueBandOf(cur) ==
  DocumentedProbability(IsStandard(cur), UnwrapOr(cur.speed, "correspondence"),
                        ExactAverage(cur))

\* C20: end_headers never stops on the sum of two ratings, and for every
\* game it decides on, the average it uses is floor((white + black) / 2),
\* so that the probability is the one of the band of the true average.
AverageIsExact ==
  /\ ~(pc = "panic" /\ phase = "headers" /\ rest.headers = <<>>
        /\ RatingSumOverflows(current))
  /\ \A i \in 1..Len(decided) :
       /\ AverageRating(decided[i].cur) = ExactAverage(decided[i].cur)
       /\ GameProbability(decided[i].cur) = TrueBandOf(decided[i].cur)

====
